---- MODULE Spec2Model ----
(***************************************************************************)
(* A model of CustomXMLParser.XmlParser (src/CustomXMLParser/main.py):     *)
(* the table extractor and tree flattener (xml_to_dict), the configuration *)
(* compiler (process_config), the projection engine (format_dict) and      *)
(* parse.                                                                  *)
(*                                                                         *)
(* Python values.  A dict read by key only is a function whose domain is a *)
(* set of strings; every other value is a record with one reserved field:  *)
(* a tuple [pytuple |-> <<...>>], a str [pystr |-> <<...>>], a list        *)
(* [pylist |-> <<...>>], None [pynone |-> TRUE], and a dict whose order of *)
(* insertion the code reads (a parsed XML element) [pyitems |-> <<<<key,   *)
(* value>>, ...>>].  A raised exception is the value [pyraise |-> type].   *)
(* The text of a str is a sequence of tokens: a token is a name without    *)
(* separators, or one separator character (",", "*", " ", "\n").          *)
(***************************************************************************)
EXTENDS Integers, Sequences, FiniteSets, TLC

VARIABLES
    _config,            \* self._config
    _tree_config,       \* self._tree_config
    _raw_tree_config,   \* self._raw_tree_config
    _target_keys_dict,  \* self._target_keys_dict
    _config_file,       \* self._config_file
    _parser_type,       \* self._parser_type
    verbose,            \* self.verbose
    files,              \* the file system: file name -> content
    arg,                \* the argument of the last call
    ret,                \* what the last call returned or raised
    log,                \* the diagnostics the last call printed
    inserted,           \* the order in which the last call inserted the keys
                        \* of the dict it returned and of its table maps
    pc                  \* the last operation called

vars == <<_config, _tree_config, _raw_tree_config, _target_keys_dict, _config_file,
          _parser_type, verbose, files, arg, ret, log, inserted, pc>>

---------------------------------------------------------------------------
(* Python values *)

Tags == {"pytuple", "pystr", "pylist", "pynone", "pyraise", "pyitems"}

EmptyDict == [k \in {} |-> {}]

Tuple(s) == [pytuple |-> s]

Str(s) == [pystr |-> s]

List(s) == [pylist |-> s]

None == [pynone |-> TRUE]

Items(s) == [pyitems |-> s]

Raise(e) == [pyraise |-> e]

IsTuple(v) == DOMAIN v = {"pytuple"}

IsStr(v) == DOMAIN v = {"pystr"}

IsList(v) == DOMAIN v = {"pylist"}

IsNone(v) == DOMAIN v = {"pynone"}

IsItems(v) == DOMAIN v = {"pyitems"}

IsRaised(v) == DOMAIN v = {"pyraise"}

IsDict(v) == DOMAIN v \cap Tags = {}

\* bool(v)
Truthy(v) ==
    CASE IsTuple(v) -> v.pytuple # <<>>
      [] IsStr(v) -> v.pystr # <<>>
      [] IsList(v) -> v.pylist # <<>>
      [] IsItems(v) -> v.pyitems # <<>>
      [] IsNone(v) -> FALSE
      [] OTHER -> DOMAIN v # {}

\* len(v)
PyLen(v) ==
    CASE IsTuple(v) -> Len(v.pytuple)
      [] IsStr(v) -> Len(v.pystr)
      [] IsList(v) -> Len(v.pylist)
      [] IsItems(v) -> Len(v.pyitems)
      [] OTHER -> Cardinality(DOMAIN v)

\* d.get(k, default) of a dict d
Get(d, k, default) == IF k \in DOMAIN d THEN d[k] ELSE default

\* An update that keeps the value a key already has
MergeKeepFirst(d1, d2) ==
    [k \in DOMAIN d1 \cup DOMAIN d2 |-> IF k \in DOMAIN d1 THEN d1[k] ELSE d2[k]]

\* d1 after d1.update(d2), d1 and d2 dicts
Merge(d1, d2) ==
    [k \in DOMAIN d1 \cup DOMAIN d2 |-> IF k \in DOMAIN d2 THEN d2[k] ELSE d1[k]]

\* {k: v}
Single(k, v) == [x \in {k} |-> v]

\* d.update(t) of a tuple t of strs: each element must unpack into a key
\* and a value, which a str of two characters does
RECURSIVE UpdateFromTuple(_, _)
UpdateFromTuple(d, t) ==
    IF t = <<>> THEN d
    ELSE IF Len(t[1]) # 2 THEN Raise("ValueError")
    ELSE UpdateFromTuple(Merge(d, Single(t[1][1], Str(<<t[1][2]>>))), Tail(t))

\* d after d.update(x), or the exception
PyUpdate(d, x) ==
    CASE IsRaised(d) -> d
      [] IsRaised(x) -> x
      [] IsDict(x) -> Merge(d, x)
      [] IsTuple(x) -> UpdateFromTuple(d, x.pytuple)
      [] OTHER -> Raise("TypeError")

---------------------------------------------------------------------------
(* str methods, on token sequences *)

\* sep in s
Contains(s, sep) == \E i \in 1..Len(s) : s[i] = sep

\* s.split(sep)
RECURSIVE Split(_, _)
Split(s, sep) ==
    IF Contains(s, sep)
    THEN LET i == CHOOSE i \in 1..Len(s) : s[i] = sep /\ \A j \in 1..(i - 1) : s[j] # sep
         IN  <<SubSeq(s, 1, i - 1)>> \o Split(SubSeq(s, i + 1, Len(s)), sep)
    ELSE <<s>>

\* s.lstrip(chars)
RECURSIVE LStrip(_, _)
LStrip(s, chars) ==
    IF s # <<>> /\ s[1] \in chars THEN LStrip(Tail(s), chars) ELSE s

\* s.rstrip(chars)
RECURSIVE RStrip(_, _)
RStrip(s, chars) ==
    IF s # <<>> /\ s[Len(s)] \in chars THEN RStrip(SubSeq(s, 1, Len(s) - 1), chars) ELSE s

\* s.strip(chars)
Strip(s, chars) == RStrip(LStrip(s, chars), chars)

Whitespace == {" ", "\n"}

\* the str as a dict key
RECURSIVE Concat(_)
Concat(s) == IF s = <<>> THEN "" ELSE s[1] \o Concat(Tail(s))

---------------------------------------------------------------------------
(* The identifiers the constructor takes, at their defaults *)

tree_idn == "TREE"

keys_idn == "KEYS"

name_key == "@name"

table_key == "th"

header_key == "header"

data_key == "rows"

header_text_key == "#text"

---------------------------------------------------------------------------
(* xml_to_dict: the table extractor and the tree flattener *)

\* A parsed XML element is a dict in the order of its entries
ItemsHas(d, k) == \E i \in 1..Len(d.pyitems) : d.pyitems[i][1] = k

ItemsGet(d, k, default) ==
    IF ItemsHas(d, k)
    THEN d.pyitems[CHOOSE i \in 1..Len(d.pyitems) : d.pyitems[i][1] = k][2]
    ELSE default

\* None as a dict key
NoneKey == "None"

\* A value as a dict key
AsKey(v) == IF IsNone(v) THEN NoneKey ELSE Concat(v.pystr)

\* A dict with the order of insertion of its keys
NoOrder == [keys |-> <<>>, columns |-> EmptyDict]

EmptyOrdered == [map |-> EmptyDict, keys |-> <<>>]

\* od after od[k] = v
SetItem(od, k, v) ==
    [map |-> Merge(od.map, Single(k, v)),
     keys |-> IF k \in DOMAIN od.map THEN od.keys ELSE Append(od.keys, k)]

Min(S) == CHOOSE n \in S : \A m \in S : n <= m

\* list(zip(*[row.split(',') for row in data.split('\n')])): the columns
\* of the grid, as many as the shortest row has cells
TableColumns(data) ==
    LET lines == Split(data, "\n")
        grid == [r \in 1..Len(lines) |-> Split(lines[r], ",")]
        n == Min({Len(grid[r]) : r \in 1..Len(lines)})
    IN  [c \in 1..n |-> Tuple([r \in 1..Len(lines) |-> grid[r][c]])]

\* The table map after the loop over enumerate(raw_header) from cell i on
RECURSIVE TableMapFrom(_, _, _, _)
TableMapFrom(cells, rows, i, od) ==
    IF i > Len(cells) THEN od
    ELSE TableMapFrom(cells, rows, i + 1,
             SetItem(od, AsKey(ItemsGet(cells[i], header_text_key, None)), rows[i]))

\* The side the diagnostic calls incomplete
MissingElement(rows, raw_header) ==
    IF Len(rows) < PyLen(raw_header) THEN data_key ELSE header_key

Mismatch(element_name, missing_element) ==
    [msg |-> "Header and rows do not match", element |-> element_name,
     incomplete |-> missing_element]

\* The result of a call: out_d with the order of its keys, the order of
\* the columns of the table maps built, what was printed, and exc: None,
\* or the exception that ended the call
Result(od, columns, printed) ==
    [out |-> od.map, keys |-> od.keys, columns |-> columns, printed |-> printed,
     exc |-> None]

Failed(type, printed) ==
    [out |-> EmptyDict, keys |-> <<>>, columns |-> EmptyDict, printed |-> printed,
     exc |-> Raise(type)]

\* The branch of an element that has the data key: the bottom
TableBranch(in_d, od) ==
    IF ~ItemsHas(in_d, name_key) THEN Failed("KeyError", <<>>)
    ELSE LET element_name == AsKey(ItemsGet(in_d, name_key, None))
             header == ItemsGet(in_d, header_key, Items(<<>>))
             data == ItemsGet(in_d, data_key, None)
         IN  IF ~IsItems(header) THEN Failed("AttributeError", <<>>)
             ELSE LET raw_header == ItemsGet(header, table_key, List(<<>>)) IN
                  IF ~(Truthy(data) /\ Truthy(raw_header))
                  THEN Result(SetItem(od, element_name, EmptyDict), EmptyDict, <<>>)
                  ELSE IF ~IsStr(data) THEN Failed("AttributeError", <<>>)
                  ELSE LET rows == TableColumns(data.pystr)
                           printed == <<Mismatch(element_name,
                                                 MissingElement(rows, raw_header))>>
                       IN  IF Len(rows) # PyLen(raw_header)
                           THEN Result(SetItem(od, element_name, EmptyDict), EmptyDict, printed)
                           ELSE IF ~IsList(raw_header) THEN Failed("AttributeError", <<>>)
                           ELSE IF \E i \in 1..Len(raw_header.pylist) :
                                      ~IsItems(raw_header.pylist[i])
                           THEN Failed("AttributeError", <<>>)
                           ELSE LET table == TableMapFrom(raw_header.pylist, rows, 1,
                                                          EmptyOrdered)
                                IN  Result(SetItem(od, element_name, table.map),
                                           Single(element_name, table.keys), printed)

RECURSIVE xml_to_dict(_, _)

\* dict_list[key] after the items of a list from item j on, with the
\* columns and the diagnostics of the items: every item is flattened into
\* a fresh dict and the result merged by update
RECURSIVE FlattenList(_, _, _)
FlattenList(values, j, acc) ==
    IF j > Len(values) THEN acc
    ELSE LET r == xml_to_dict(values[j], EmptyOrdered) IN
         IF r.exc # None
         THEN [map |-> acc.map, columns |-> acc.columns,
               printed |-> acc.printed \o r.printed, exc |-> r.exc]
         ELSE FlattenList(values, j + 1,
                  [map |-> Merge(acc.map, r.out),
                   columns |-> Merge(acc.columns, r.columns),
                   printed |-> acc.printed \o r.printed, exc |-> None])

\* The loop over in_d.items() from item i on; acc is the result so far
RECURSIVE FlattenItems(_, _, _)
FlattenItems(in_d, i, acc) ==
    IF i > Len(in_d.pyitems) THEN acc
    ELSE LET key == in_d.pyitems[i][1]
             value == in_d.pyitems[i][2]
             od == [map |-> acc.out, keys |-> acc.keys]
         IN  CASE IsItems(value) ->
                    LET r == xml_to_dict(value, EmptyOrdered) IN
                    IF r.exc # None THEN Failed(r.exc.pyraise, acc.printed \o r.printed)
                    ELSE IF ItemsHas(in_d, name_key)
                    THEN IF acc.keys = <<>>
                         THEN Failed("StopIteration", acc.printed \o r.printed)
                         ELSE FlattenItems(in_d, i + 1,
                                Result(SetItem(od, acc.keys[1],
                                           Merge(acc.out[acc.keys[1]], Single(key, r.out))),
                                       Merge(acc.columns, r.columns),
                                       acc.printed \o r.printed))
                    ELSE FlattenItems(in_d, i + 1,
                            Result(SetItem(od, key, r.out), Merge(acc.columns, r.columns),
                                   acc.printed \o r.printed))
              [] IsList(value) ->
                    LET l == FlattenList(value.pylist, 1,
                                 [map |-> EmptyDict, columns |-> EmptyDict,
                                  printed |-> <<>>, exc |-> None])
                    IN  IF l.exc # None
                        THEN Failed(l.exc.pyraise, acc.printed \o l.printed)
                        ELSE IF acc.keys # <<>>
                        THEN FlattenItems(in_d, i + 1,
                                Result(SetItem(od, acc.keys[1],
                                           Merge(acc.out[acc.keys[1]], Single(key, l.map))),
                                       Merge(acc.columns, l.columns),
                                       acc.printed \o l.printed))
                        ELSE FlattenItems(in_d, i + 1,
                                Result(SetItem(od, key, l.map), Merge(acc.columns, l.columns),
                                       acc.printed \o l.printed))
              [] IsStr(value) /\ Truthy(value) ->
                    FlattenItems(in_d, i + 1,
                        Result(SetItem(od, AsKey(value), EmptyDict), acc.columns, acc.printed))
              [] OTHER -> FlattenItems(in_d, i + 1, acc)

\* The result of xml_to_dict(in_d, out_d).  An in_d that is no dict has no
\* items(); the {} that load_file answers a failure with has none to loop
\* over.
xml_to_dict(in_d, out_d) ==
    IF in_d = EmptyDict THEN Result(out_d, EmptyDict, <<>>)
    ELSE IF ~IsItems(in_d) THEN Failed("AttributeError", <<>>)
    ELSE IF ItemsHas(in_d, data_key) THEN TableBranch(in_d, out_d)
    ELSE FlattenItems(in_d, 1, Result(out_d, EmptyDict, <<>>))

---------------------------------------------------------------------------
(* format_dict: the projection engine *)

\* The loop of _process_payload from raw_keys[i] on; st holds the locals
\* wild_list, valid_keys, root_key and payload_copy.  A break returns st.
RECURSIVE ProcessPayloadLoop(_, _, _)
ProcessPayloadLoop(raw_keys, i, st) ==
    IF i > Len(raw_keys) THEN st
    ELSE LET key == raw_keys[i] IN
         IF Contains(key, "*")
         THEN IF ~IsDict(st.payload_copy) THEN Raise("AttributeError")
              ELSE LET wild_key == Concat(Strip(key, {"*"}))
                       wild_dict == Get(st.payload_copy, wild_key, EmptyDict)
                   IN  IF ~Truthy(wild_dict) THEN st
                       ELSE IF PyLen(wild_dict) = 1
                       THEN IF ~IsDict(wild_dict) THEN Raise("AttributeError")
                            ELSE ProcessPayloadLoop(raw_keys, i + 1,
                                    [st EXCEPT !.payload_copy =
                                        wild_dict[CHOOSE k \in DOMAIN wild_dict : TRUE]])
                       ELSE ProcessPayloadLoop(raw_keys, i + 1,
                                [st EXCEPT !.payload_copy = wild_dict, !.wild_list = TRUE])
         ELSE ProcessPayloadLoop(raw_keys, i + 1,
                  [st EXCEPT !.root_key = IF @ # "" THEN @ ELSE Concat(key),
                             !.valid_keys = IF st.wild_list THEN @ ELSE Append(@, Concat(key)),
                             !.wild_list = FALSE])

\* (root_key, valid_keys, payload_copy), or the exception
_process_payload(raw_keys, payload) ==
    ProcessPayloadLoop(raw_keys, 1,
        [wild_list |-> FALSE, valid_keys |-> <<>>, root_key |-> "", payload_copy |-> payload])

RECURSIVE _get_dict_values(_, _)
_get_dict_values(d, keys) ==
    IF keys = <<>> THEN d
    ELSE IF ~IsDict(d) THEN Raise("TypeError")
    ELSE IF keys[1] \notin DOMAIN d THEN Raise("KeyError")
    ELSE _get_dict_values(d[keys[1]], Tail(keys))

\* The names a KEYS directive lists: [key.strip() for key in s.split(',')]
SubKeys(s) ==
    LET parts == Split(s, ",")
    IN  {Concat(Strip(parts[i], Whitespace)) : i \in 1..Len(parts)}

\* keys_dict is self._target_keys_dict.  Only KeyError is caught.
_populate_dict(key, valid_keys, sub_payload, keys_dict) ==
    LET tmp_dict == _get_dict_values(sub_payload, valid_keys)
    IN  IF IsRaised(tmp_dict)
        THEN IF tmp_dict.pyraise = "KeyError" THEN EmptyDict ELSE tmp_dict
        ELSE IF key \in DOMAIN keys_dict
        THEN IF ~IsStr(keys_dict[key]) \/ ~IsDict(tmp_dict) THEN Raise("AttributeError")
             ELSE [k \in DOMAIN tmp_dict \cap SubKeys(keys_dict[key].pystr) |-> tmp_dict[k]]
        ELSE tmp_dict

RECURSIVE _summarize(_, _, _, _)

\* out_d[key][k] for one instance (k, v) of a wild card list: the table's
\* own keys inside v, then every child table projected from v
InstanceOut(config, children, key, valid_keys, v, keys_dict) ==
    LET own == PyUpdate(EmptyDict, _populate_dict(key, valid_keys, v, keys_dict))
        kids == [child \in DOMAIN children |->
                    _summarize(Single(child, Get(config, child, List(<<>>))),
                               children, v, keys_dict)]
    IN  IF IsRaised(own) THEN own
        ELSE IF \E child \in DOMAIN children : IsRaised(kids[child]) THEN Raise("Exception")
        ELSE Merge(own, [child \in DOMAIN children |-> kids[child][child]])

\* out_d[key] after one path of the table, out being out_d[key] before it
PathOut(config, children, key, path, payload, keys_dict, out) ==
    LET raw_keys == Split(path, ",") IN
    IF Contains(path, "*")
    THEN LET r == _process_payload(raw_keys, payload) IN
         IF IsRaised(r) THEN r
         ELSE IF r.valid_keys = <<>> /\ r.root_key = "" THEN out
         ELSE IF ~IsDict(r.payload_copy) THEN Raise("AttributeError")
         ELSE IF Truthy(Get(r.payload_copy, r.root_key, None))
         THEN PyUpdate(out, _populate_dict(key, r.valid_keys, r.payload_copy, keys_dict))
         ELSE LET valid_keys == <<r.root_key>> \o r.valid_keys
                  inst == [k \in DOMAIN r.payload_copy |->
                              InstanceOut(config, children, key, valid_keys,
                                          r.payload_copy[k], keys_dict)]
              IN  IF \E k \in DOMAIN inst : IsRaised(inst[k]) THEN Raise("Exception")
                  ELSE Merge(out, inst)
    ELSE PyUpdate(out, _populate_dict(key, [i \in 1..Len(raw_keys) |-> Concat(raw_keys[i])],
                                      payload, keys_dict))

\* out_d[key] after the paths, in order
RECURSIVE PathsOut(_, _, _, _, _, _, _)
PathsOut(config, children, key, paths, payload, keys_dict, out) ==
    IF paths = <<>> \/ IsRaised(out) THEN out
    ELSE PathsOut(config, children, key, Tail(paths), payload, keys_dict,
                  PathOut(config, children, key, paths[1], payload, keys_dict, out))

\* out_d, which every call starts empty, or the exception.  The entries of
\* config under the table names are lists of path strs; parents and its
\* sub-trees are dicts.
_summarize(config, parents, payload, keys_dict) ==
    LET keys == DOMAIN config \cap DOMAIN parents
        out_d == [key \in keys |->
                    IF IsList(config[key])
                    THEN PathsOut(config, parents[key], key, config[key].pylist,
                                  payload, keys_dict, EmptyDict)
                    ELSE Raise("TypeError")]
    IN  IF \E key \in keys : IsRaised(out_d[key]) THEN Raise("Exception") ELSE out_d

format_dict(config, tree, keys_dict, payload) ==
    IF ~IsDict(config) \/ ~IsDict(tree) THEN Raise("AttributeError")
    ELSE _summarize(config, tree, payload, keys_dict)

---------------------------------------------------------------------------
(* process_config: the configuration compiler *)

RECURSIVE _prune_tree(_)
_prune_tree(d) ==
    CASE IsDict(d) -> [key \in DOMAIN d \ {keys_idn} |-> _prune_tree(d[key])]
      [] IsList(d) -> List([i \in 1..Len(d.pylist) |-> _prune_tree(d.pylist[i])])
      [] OTHER -> d

\* self._target_keys_dict after _set_target_keys(d), or the exception of
\* d.items().  ks are the items of d still to visit.  The order of the
\* visit shows only when one table name occurs twice in the tree.
RECURSIVE _set_target_keys(_, _)
RECURSIVE SetTargetKeysItems(_, _, _)
SetTargetKeysItems(d, ks, keys_dict) ==
    IF ks = {} THEN keys_dict
    ELSE LET k == CHOOSE k \in ks : TRUE
             v == d[k]
         IN  SetTargetKeysItems(d, ks \ {k},
                 IF IsDict(v) /\ Truthy(Get(v, keys_idn, Str(<<>>)))
                 THEN _set_target_keys(v, Merge(keys_dict, Single(k, v[keys_idn])))
                 ELSE keys_dict)

_set_target_keys(d, keys_dict) ==
    IF ~IsDict(d) THEN Raise("AttributeError")
    ELSE SetTargetKeysItems(d, DOMAIN d, keys_dict)

---------------------------------------------------------------------------
(* load_file and process_config *)

\* A file is [type |-> "xml" or "json", data |-> what its parser returns];
\* a file of neither type does not parse.  A failure to open or to parse
\* is caught, printed and answered by {}.
load_file(fs, file, doc_type) ==
    IF file \in DOMAIN fs /\ fs[file].type = doc_type
    THEN [value |-> fs[file].data, printed |-> <<>>]
    ELSE [value |-> EmptyDict, printed |-> <<[msg |-> "Failed to load file"]>>]

\* process_config with the load at every call instead of the load while
\* self._config is empty
process_config_reloading(config, tree_config, raw_tree_config, keys_dict, config_file, fs) ==
    LET loaded == load_file(fs, config_file, "json")
        conf == loaded.value
        printed == loaded.printed
        raw == Get(conf, tree_idn, EmptyDict)
        pruned == _prune_tree(raw)
        collected == _set_target_keys(raw, keys_dict)
    IN  IF ~IsDict(conf)
        THEN [_config |-> conf, _raw_tree_config |-> raw_tree_config,
              _tree_config |-> tree_config, _target_keys_dict |-> keys_dict,
              printed |-> printed, exc |-> Raise("AttributeError")]
        ELSE IF IsRaised(collected)
        THEN [_config |-> conf, _raw_tree_config |-> raw, _tree_config |-> pruned,
              _target_keys_dict |-> keys_dict, printed |-> printed, exc |-> collected]
        ELSE [_config |-> conf, _raw_tree_config |-> raw, _tree_config |-> pruned,
              _target_keys_dict |-> collected, printed |-> printed, exc |-> None]

\* The fields process_config leaves and exc, None or the exception that
\* ends it: the assignments made before the exception stay.
process_config(config, tree_config, raw_tree_config, keys_dict, config_file, fs) ==
    LET loaded == load_file(fs, config_file, "json")
        conf == IF ~Truthy(config) THEN loaded.value ELSE config
        printed == IF ~Truthy(config) THEN loaded.printed ELSE <<>>
        raw == Get(conf, tree_idn, EmptyDict)
        pruned == _prune_tree(raw)
        collected == _set_target_keys(raw, keys_dict)
    IN  IF ~IsDict(conf)
        THEN [_config |-> conf, _raw_tree_config |-> raw_tree_config,
              _tree_config |-> tree_config, _target_keys_dict |-> keys_dict,
              printed |-> printed, exc |-> Raise("AttributeError")]
        ELSE IF IsRaised(collected)
        THEN [_config |-> conf, _raw_tree_config |-> raw, _tree_config |-> pruned,
              _target_keys_dict |-> keys_dict, printed |-> printed, exc |-> collected]
        ELSE [_config |-> conf, _raw_tree_config |-> raw, _tree_config |-> pruned,
              _target_keys_dict |-> collected, printed |-> printed, exc |-> None]

\* What _print shows: nothing unless verbose
Shown(printed) == IF verbose THEN printed ELSE <<>>

---------------------------------------------------------------------------
(* The flattened trees and the configurations of the projection *)

\* str literals: a path of plain segments a and wild card segments a*
S1(a) == <<a>>

Wild(a) == <<a, "*">>

RECURSIVE Path(_)
Path(segments) ==
    IF Len(segments) = 1 THEN segments[1]
    ELSE segments[1] \o <<",">> \o Path(Tail(segments))

Path2(a, b) == Path(<<S1(a), S1(b)>>)

\* Every dict from a non-empty set of names among names to bodies
Instances(names, bodies) == UNION {[S -> bodies] : S \in SUBSET names \ {{}}}

\* Table maps: column name -> the column's cells
Col12 == Tuple(<<S1("1"), S1("2")>>)

Col34 == Tuple(<<<<"3", "4">>>>)

Map0 == EmptyDict

Map1 == Single("x", Col12)

Map2 == [k \in {"x", "y"} |-> IF k = "x" THEN Col34 ELSE Col12]

Info(m) == Single("info", m)

Images(m) == Single("images", m)

Table(t) == Single("table", t)

TopTables ==
    {Info(Map1), Images(Map2), Merge(Info(Map1), Images(Map2)),
     Merge(Info(Map2), Images(Map1)), Merge(Info(Map0), Images(Map1))}

NodeBodies == {Table(Images(Map1)), Table(Merge(Info(Map1), Images(Map2)))}

NodeNames == {"n1", "n2"}

NodeInstances == Instances(NodeNames, NodeBodies)

ContainerBodies ==
    {EmptyDict, Single("other", Map1), Table(Images(Map1)),
     Table(Merge(Info(Map2), Images(Map1)))}
    \cup {Single("node", n) : n \in NodeInstances}
    \cup {Merge(Table(Info(Map1)), Single("node", n)) :
            n \in Instances(NodeNames, {Table(Images(Map1))})}

ContainerNames == {"c1", "c2"}

ContainerInstances == Instances(ContainerNames, ContainerBodies)

Payloads ==
    {EmptyDict}
    \cup {Table(t) : t \in TopTables}
    \cup {Single("container", c) : c \in ContainerInstances}
    \cup {Merge(Table(Info(Map2)), Single("container", c)) :
            c \in Instances({"c1"}, ContainerBodies)}

\* The number of paths a table lists at most
MaxPaths == 2

TablePaths ==
    {Path2("table", "info"), Path2("table", "images"), Path2("table", "metadata"),
     Path(<<S1("table"), S1("info"), S1("x"), S1("rows")>>),
     Path(<<Wild("container"), S1("table"), S1("images")>>),
     Path(<<Wild("container"), Wild("node"), S1("table"), S1("images")>>)}

\* The lists of at most n paths
RECURSIVE PathLists(_)
PathLists(n) ==
    IF n = 0 THEN {<<>>}
    ELSE LET shorter == PathLists(n - 1)
         IN  shorter \cup {Append(l, p) : l \in {x \in shorter : Len(x) = n - 1}, p \in TablePaths}

\* A node of the tree plan, with or without a KEYS directive
KeysDirective == Str(<<"x", ",", " ", "z">>)

Plans(children) == {children, Merge(children, Single(keys_idn, KeysDirective))}

\* T and U at the top; X lists paths and is not in the tree
FlatConfigs ==
    {[k \in {tree_idn, "T", "U", "X"} |->
        CASE k = tree_idn -> [t \in {"T", "U"} |-> IF t = "T" THEN plan ELSE EmptyDict]
          [] k = "T" -> List(paths)
          [] k = "U" -> List(<<Path2("table", "info")>>)
          [] OTHER -> List(<<Path2("table", "images")>>)] :
        plan \in Plans(EmptyDict), paths \in PathLists(MaxPaths)}

\* T with the child C, and C with or without the child D
NestedTrees ==
    {Single("T", t) :
        t \in UNION {Plans(Single("C", c)) :
                c \in Plans(EmptyDict) \cup UNION {Plans(Single("D", d)) : d \in Plans(EmptyDict)}}}

NestedConfigs ==
    {[k \in {tree_idn, "T", "C", "D"} |->
        CASE k = tree_idn -> tree
          [] k = "T" -> List(<<tpath>>)
          [] k = "C" -> List(<<cpath>>)
          [] OTHER -> List(<<Path2("table", "images")>>)] :
        tree \in NestedTrees,
        tpath \in {Path(<<Wild("container"), S1("table"), S1("info")>>),
                   Path(<<Wild("container"), Wild("node"), S1("table"), S1("images")>>)},
        cpath \in {Path(<<Wild("node"), S1("table"), S1("images")>>), Path2("table", "images")}}

Configs == FlatConfigs \cup NestedConfigs

ConfigFileName == "config.json"

---------------------------------------------------------------------------
(* The projection: process_config, then format_dict on a flattened tree *)

\* XmlParser(config_file, parser_type='custom'): the constructor loads the
\* configuration file
InitProject ==
    /\ \E conf \in Configs :
          /\ files = Single(ConfigFileName, [type |-> "json", data |-> conf])
          /\ _config = conf
    /\ _config_file = ConfigFileName
    /\ _tree_config = EmptyDict
    /\ _raw_tree_config = EmptyDict
    /\ _target_keys_dict = EmptyDict
    /\ _parser_type = "custom"
    /\ verbose = TRUE
    /\ arg = None
    /\ ret = None
    /\ log = <<>>
    /\ inserted = NoOrder
    /\ pc = "init"

ProcessConfig ==
    /\ pc = "init"
    /\ LET r == process_config(_config, _tree_config, _raw_tree_config,
                               _target_keys_dict, _config_file, files)
       IN  /\ _config' = r._config
           /\ _tree_config' = r._tree_config
           /\ _raw_tree_config' = r._raw_tree_config
           /\ _target_keys_dict' = r._target_keys_dict
           /\ ret' = r.exc
           /\ log' = Shown(r.printed)
    /\ arg' = None
    /\ inserted' = NoOrder
    /\ pc' = "process_config"
    /\ UNCHANGED <<_config_file, _parser_type, verbose, files>>

FormatDict ==
    /\ pc = "process_config"
    /\ ret = None
    /\ \E payload \in Payloads :
          /\ arg' = payload
          /\ ret' = format_dict(_config, _tree_config, _target_keys_dict, payload)
    /\ log' = <<>>
    /\ inserted' = NoOrder
    /\ pc' = "format_dict"
    /\ UNCHANGED <<_config, _tree_config, _raw_tree_config, _target_keys_dict,
                   _config_file, _parser_type, verbose, files>>

NextProject == ProcessConfig \/ FormatDict

SpecProject == InitProject /\ [][NextProject]_vars

---------------------------------------------------------------------------
(* What the projection is meant to return, read off the paths *)

Projected == pc = "format_dict"

Segments(path) == Split(path, ",")

IsWild(segment) == Contains(segment, "*")

SegmentName(segment) == Concat(Strip(segment, {"*"}))

PlainPath(path) == ~Contains(path, "*")

\* The first segment is a wild card and no other is
OneLeadingWildCard(path) ==
    LET segments == Segments(path)
    IN  /\ IsWild(segments[1])
        /\ \A i \in 2..Len(segments) : ~IsWild(segments[i])

\* The keys of a tree at every depth
RECURSIVE AllKeys(_)
AllKeys(v) ==
    IF ~IsDict(v) THEN {}
    ELSE DOMAIN v \cup UNION {AllKeys(v[k]) : k \in DOMAIN v}

\* The value a sequence of names leads to, or "missing"
Missing == [missing |-> TRUE]

RECURSIVE Descend(_, _)
Descend(v, names) ==
    IF names = <<>> THEN v
    ELSE IF ~IsDict(v) THEN Missing
    ELSE IF names[1] \notin DOMAIN v THEN Missing
    ELSE Descend(v[names[1]], Tail(names))

PathNames(path) == [i \in 1..Len(Segments(path)) |-> SegmentName(Segments(path)[i])]

\* A path resolved segment by segment: a wild card segment with one
\* child descends into the child, one with several children gives one
\* entry per child, a segment that is not there gives the empty mapping
RECURSIVE Resolve(_, _)
Resolve(v, segments) ==
    IF segments = <<>> THEN v
    ELSE IF ~IsDict(v) THEN EmptyDict
    ELSE IF SegmentName(segments[1]) \notin DOMAIN v THEN EmptyDict
    ELSE LET sub == v[SegmentName(segments[1])] IN
         IF ~IsWild(segments[1]) THEN Resolve(sub, Tail(segments))
         ELSE IF ~IsDict(sub) THEN EmptyDict
         ELSE IF Cardinality(DOMAIN sub) = 1
         THEN Resolve(sub[CHOOSE k \in DOMAIN sub : TRUE], Tail(segments))
         ELSE [k \in DOMAIN sub |-> Resolve(sub[k], Tail(segments))]

\* Every segment of the path is there, in every instance it passes through
RECURSIVE Resolves(_, _)
Resolves(v, segments) ==
    IF segments = <<>> THEN IsDict(v)
    ELSE /\ IsDict(v)
         /\ SegmentName(segments[1]) \in DOMAIN v
         /\ LET sub == v[SegmentName(segments[1])] IN
            IF ~IsWild(segments[1]) THEN Resolves(sub, Tail(segments))
            ELSE /\ IsDict(sub)
                 /\ sub # EmptyDict
                 /\ \A k \in DOMAIN sub : Resolves(sub[k], Tail(segments))

\* Every wild card segment of the path meets a key with exactly one child
RECURSIVE AllSingle(_, _)
AllSingle(v, segments) ==
    IF \A i \in 1..Len(segments) : ~IsWild(segments[i]) THEN TRUE
    ELSE IF ~IsDict(v) THEN FALSE
    ELSE IF SegmentName(segments[1]) \notin DOMAIN v THEN FALSE
    ELSE LET sub == v[SegmentName(segments[1])] IN
         IF ~IsWild(segments[1]) THEN AllSingle(sub, Tail(segments))
         ELSE /\ IsDict(sub)
              /\ Cardinality(DOMAIN sub) = 1
              /\ AllSingle(sub[CHOOSE k \in DOMAIN sub : TRUE], Tail(segments))

\* The first segment of the path is a wild card whose key has several children
SeveralInstances(v, path) ==
    LET first == Segments(path)[1]
    IN  /\ IsWild(first)
        /\ IsDict(v)
        /\ SegmentName(first) \in DOMAIN v
        /\ IsDict(v[SegmentName(first)])
        /\ Cardinality(DOMAIN v[SegmentName(first)]) > 1

InstancesOf(v, path) == v[SegmentName(Segments(path)[1])]

\* The paths the configuration lists for a table
PathsOf(config, table) ==
    IF table \in DOMAIN config /\ IsList(config[table]) THEN config[table].pylist ELSE <<>>

\* T is a table at the top of the tree with one path, no filter, no child
LoneTable(table) ==
    /\ table \in DOMAIN _tree_config
    /\ _tree_config[table] = EmptyDict
    /\ table \notin DOMAIN _target_keys_dict
    /\ Len(PathsOf(_config, table)) = 1

\* The names of the filter declared for a table
FilterOf(table) == SubKeys(_target_keys_dict[table].pystr)

---------------------------------------------------------------------------
(* The claims about the projection and the configuration compiler *)

\* C1: a wild card segment whose key has N > 1 children gives exactly N
\* instance keys in output[T], named after the children, each mapping to
\* the rest of the path resolved inside that child, also when another wild
\* card segment follows ("container*,node*,table,images").  Stated for a
\* path whose every segment is there in every instance.
C1_InstanceKeys ==
    Projected =>
        \A table \in DOMAIN _tree_config :
            (/\ LoneTable(table)
             /\ SeveralInstances(arg, PathsOf(_config, table)[1])
             /\ Resolves(arg, Segments(PathsOf(_config, table)[1]))) =>
                LET path == PathsOf(_config, table)[1]
                    children == InstancesOf(arg, path)
                IN  /\ ~IsRaised(ret)
                    /\ table \in DOMAIN ret
                    /\ ret[table] = [k \in DOMAIN children |->
                                        Resolve(children[k], Tail(Segments(path)))]

\* The directives of a tree plan: <<table name, KEYS string>> at any depth
RECURSIVE Directives(_)
Directives(tree) ==
    IF ~IsDict(tree) THEN {}
    ELSE UNION {(IF IsDict(tree[t]) /\ keys_idn \in DOMAIN tree[t]
                 THEN {<<t, tree[t][keys_idn]>>} ELSE {}) \cup Directives(tree[t]) :
                t \in DOMAIN tree}

\* C2: after process_config, _target_keys_dict maps every table of the
\* tree that carries a KEYS directive, at any depth, to the directive, and
\* the pruned tree has no KEYS key and every table name of the raw tree.
C2_KeyFilterCollected ==
    (pc = "process_config" /\ ret = None) =>
        /\ \A d \in Directives(_config[tree_idn]) :
              /\ d[1] \in DOMAIN _target_keys_dict
              /\ _target_keys_dict[d[1]] = d[2]
        /\ keys_idn \notin AllKeys(_tree_config)
        /\ AllKeys(_tree_config) = AllKeys(_config[tree_idn]) \ {keys_idn}

\* C3: a table with a key filter has no key outside the filter in its
\* direct output: output[T] when the path has no wild card or collapses to
\* a single instance, each output[T][instance], child tables aside, when
\* the path has several instances.
C3_FilteredKeys ==
    (Projected /\ ~IsRaised(ret)) =>
        \A table \in DOMAIN ret \cap DOMAIN _target_keys_dict :
            Len(PathsOf(_config, table)) = 1 =>
                LET path == PathsOf(_config, table)[1] IN
                /\ (PlainPath(path) \/ AllSingle(arg, Segments(path))) =>
                        DOMAIN ret[table] \subseteq FilterOf(table)
                /\ (OneLeadingWildCard(path) /\ SeveralInstances(arg, path)) =>
                        \A k \in DOMAIN ret[table] :
                            DOMAIN ret[table][k] \subseteq
                                FilterOf(table) \cup DOMAIN _tree_config[table]

\* The configuration without the i-th path of a table
WithoutPath(config, table, i) ==
    LET paths == config[table].pylist
    IN  [config EXCEPT ![table] =
            List(SubSeq(paths, 1, i - 1) \o SubSeq(paths, i + 1, Len(paths)))]

\* A segment of the path is a key nowhere in the flattened tree
SegmentAbsent(path, payload) ==
    \E i \in 1..Len(Segments(path)) : PathNames(path)[i] \notin AllKeys(payload)

\* C4: a path with a segment absent from the flattened tree does not make
\* the projection raise, output[T] is present, and the output is what it
\* would be without that path in the configuration: the path contributes
\* no key, every other path and table is unaffected.
C4_MissingResource ==
    Projected =>
        \A table \in DOMAIN _tree_config \cap DOMAIN _config :
            \A i \in 1..Len(PathsOf(_config, table)) :
                SegmentAbsent(PathsOf(_config, table)[i], arg) =>
                    /\ ~IsRaised(ret)
                    /\ table \in DOMAIN ret
                    /\ ret = format_dict(WithoutPath(_config, table, i), _tree_config,
                                         _target_keys_dict, arg)

\* C5: when every wild card segment of a path meets a key with exactly
\* one child, output[T] has the keys of the mapping the path leads to
\* through the single children, and no instance-key layer.
C5_Collapse ==
    Projected =>
        \A table \in DOMAIN _tree_config :
            (/\ LoneTable(table)
             /\ ~PlainPath(PathsOf(_config, table)[1])
             /\ AllSingle(arg, Segments(PathsOf(_config, table)[1]))) =>
                /\ ~IsRaised(ret)
                /\ table \in DOMAIN ret
                /\ DOMAIN ret[table] =
                       DOMAIN Resolve(arg, Segments(PathsOf(_config, table)[1]))

\* The mappings in order, merged: a later one wins on a shared key
RECURSIVE MergedInOrder(_)
MergedInOrder(mappings) ==
    IF mappings = <<>> THEN EmptyDict
    ELSE LET before == MergedInOrder(SubSeq(mappings, 1, Len(mappings) - 1))
             last == mappings[Len(mappings)]
         IN  [k \in DOMAIN before \cup DOMAIN last |->
                 IF k \in DOMAIN last THEN last[k] ELSE before[k]]

\* What the paths of a table lead to, in order
FoundAt(payload, paths) == [i \in 1..Len(paths) |-> Descend(payload, PathNames(paths[i]))]

\* The table has no filter and its paths are plain and all lead to mappings
DirectTable(table) ==
    /\ table \in DOMAIN _tree_config \cap DOMAIN _config
    /\ table \notin DOMAIN _target_keys_dict
    /\ IsList(_config[table])
    /\ \A i \in 1..Len(PathsOf(_config, table)) :
          /\ PlainPath(PathsOf(_config, table)[i])
          /\ FoundAt(arg, PathsOf(_config, table))[i] # Missing
          /\ IsDict(FoundAt(arg, PathsOf(_config, table))[i])

C7_Inheritance ==
    Projected =>
        \A table \in DOMAIN _tree_config :
            (/\ Len(PathsOf(_config, table)) = 1
             /\ OneLeadingWildCard(PathsOf(_config, table)[1])
             /\ SeveralInstances(arg, PathsOf(_config, table)[1])) =>
                /\ ~IsRaised(ret)
                /\ \A k \in DOMAIN InstancesOf(arg, PathsOf(_config, table)[1]) :
                   \A child \in DOMAIN _tree_config[table] :
                      LET v == InstancesOf(arg, PathsOf(_config, table)[1])[k]
                          cpaths == PathsOf(_config, child)
                      IN  /\ k \in DOMAIN ret[table]
                          /\ child \in DOMAIN ret[table][k]
                          /\ (/\ Len(cpaths) = 1
                              /\ OneLeadingWildCard(cpaths[1])
                              /\ SeveralInstances(v, cpaths[1])) =>
                                 \A kc \in DOMAIN InstancesOf(v, cpaths[1]) :
                                 \A grandchild \in DOMAIN _tree_config[table][child] :
                                    LET found == FoundAt(InstancesOf(v, cpaths[1])[kc],
                                                         PathsOf(_config, grandchild))
                                    IN  (/\ Len(found) > 0
                                         /\ \A i \in 1..Len(found) :
                                               /\ PlainPath(PathsOf(_config, grandchild)[i])
                                               /\ found[i] # Missing
                                               /\ IsDict(found[i])
                                               /\ DOMAIN found[i] \cap {"x", "z"} # {}) =>
                                            /\ kc \in DOMAIN ret[table][k][child]
                                            /\ grandchild \in DOMAIN ret[table][k][child][kc]
                                            /\ ret[table][k][child][kc][grandchild] # EmptyDict

---------------------------------------------------------------------------
(* The table elements *)

MaxRows == 2
MaxCols == 2

CellTexts == {<<"1">>, <<"2">>}

RECURSIVE Join(_, _)
Join(parts, sep) ==
    IF Len(parts) = 1 THEN parts[1]
    ELSE parts[1] \o <<sep>> \o Join(Tail(parts), sep)

RowTexts == {Join(cells, ",") : cells \in UNION {[1..n -> CellTexts] : n \in 1..MaxCols}}

DataTexts ==
    {Join(lines, "\n") : lines \in UNION {[1..m -> RowTexts] : m \in 1..MaxRows}}

\* The data of a table element: rows of cells, the empty text, or nothing
TableData == {Str(t) : t \in DataTexts} \cup {Str(<<>>), None}

\* A header cell as xmltodict.parse returns it: its attributes, and its
\* text under the text key when it has text
HeaderCell(text) == Items(<<<<"@id", Str(<<"k">>)>>, <<header_text_key, Str(<<text>>)>>>>)

HeaderCells == {HeaderCell(t) : t \in {"a", "b"}} \cup {Items(<<<<"@id", Str(<<"k">>)>>>>)}

RawHeaders == {List(cells) : cells \in UNION {[1..n -> HeaderCells] : n \in 0..MaxCols}}

\* The entries of a table element for its header: none; an empty header
\* element, which xmltodict.parse returns as None; a header without cells;
\* a header with one cell, which is the cell itself; a header with a list
\* of cells
HeaderItems ==
    {<<>>, <<<<header_key, None>>>>, <<<<header_key, Items(<<<<"@id", Str(<<"k">>)>>>>)>>>>}
        \cup {<<<<header_key, Items(<<<<table_key, h>>>>)>>>> : h \in RawHeaders \cup HeaderCells}

TableName == "t"

TableNodes ==
    {Items(<<<<name_key, Str(<<TableName>>)>>>> \o h \o <<<<data_key, d>>>>) :
        h \in HeaderItems, d \in TableData}

---------------------------------------------------------------------------
(* The extraction: xml_to_dict on a table element *)

InitTable ==
    /\ _config = EmptyDict
    /\ _config_file = ConfigFileName
    /\ _tree_config = EmptyDict
    /\ _raw_tree_config = EmptyDict
    /\ _target_keys_dict = EmptyDict
    /\ _parser_type = "custom"
    /\ files = EmptyDict
    /\ verbose \in BOOLEAN
    /\ arg \in TableNodes
    /\ ret = None
    /\ log = <<>>
    /\ inserted = NoOrder
    /\ pc = "init"

XmlToDict ==
    /\ pc = "init"
    /\ LET r == xml_to_dict(arg, EmptyOrdered)
       IN  /\ ret' = IF r.exc # None THEN r.exc ELSE r.out
           /\ log' = Shown(r.printed)
           /\ inserted' = [keys |-> r.keys, columns |-> r.columns]
    /\ pc' = "xml_to_dict"
    /\ UNCHANGED <<_config, _tree_config, _raw_tree_config, _target_keys_dict,
                   _config_file, _parser_type, verbose, files, arg>>

NextTable == XmlToDict

SpecTable == InitTable /\ [][NextTable]_vars

---------------------------------------------------------------------------
(* parse *)

Say(text) == [msg |-> text]

\* What parse returns and prints once the configuration is compiled (c),
\* the file loaded, the tree flattened (flat) and projected (formatted)
ParseReturn(c, parser_type, loaded, flat, formatted) ==
    IF c.exc # None
    THEN [ret |-> c.exc, printed |-> c.printed]
    ELSE IF parser_type = "raw"
    THEN [ret |-> loaded.value,
          printed |-> c.printed \o <<Say("Raw xml to dict parsing.")>> \o loaded.printed]
    ELSE IF flat.exc # None
    THEN [ret |-> EmptyDict,
          printed |-> c.printed \o loaded.printed \o flat.printed \o <<Say("Corrupt file")>>]
    ELSE IF ~Truthy(c._tree_config)
    THEN [ret |-> flat.out,
          printed |-> c.printed \o loaded.printed \o flat.printed
                          \o <<Say("Unformatted custom parsing.")>>]
    ELSE IF IsRaised(formatted)
    THEN [ret |-> flat.out,
          printed |-> c.printed \o loaded.printed \o flat.printed
                          \o <<Say("Unformatted custom parsing."),
                               Say("Bad configuration, defaulting to unformatted parsing.")>>]
    ELSE [ret |-> formatted,
          printed |-> c.printed \o loaded.printed \o flat.printed
                          \o <<Say("Unformatted custom parsing."),
                               Say("Formatted custom parsing.")>>
                          \o IF \A key \in DOMAIN formatted : Truthy(formatted[key]) THEN <<>>
                             ELSE <<[msg |-> "table is empty.",
                                     tables |-> {key \in DOMAIN formatted :
                                                    ~Truthy(formatted[key])}]>>]

\* format_dict(unformatted_dict[next(iter(unformatted_dict))])
ParseFormat(c, flat) ==
    IF flat.keys = <<>> THEN Raise("StopIteration")
    ELSE format_dict(c._config, c._tree_config, c._target_keys_dict, flat.out[flat.keys[1]])

ParseFlat(c, parser_type, loaded, flat) ==
    ParseReturn(c, parser_type, loaded, flat, ParseFormat(c, flat))

ParseLoaded(c, parser_type, loaded) ==
    ParseFlat(c, parser_type, loaded, xml_to_dict(loaded.value, EmptyOrdered))

\* The fields parse leaves (self), what it returns or raises, and what it
\* printed
ParseCompiled(c, parser_type, fs, file) ==
    [self |-> [_config |-> c._config, _raw_tree_config |-> c._raw_tree_config,
               _tree_config |-> c._tree_config,
               _target_keys_dict |-> c._target_keys_dict],
     call |-> ParseLoaded(c, parser_type, load_file(fs, file, "xml"))]

parse(config, tree_config, raw_tree_config, keys_dict, config_file, parser_type, fs, file) ==
    ParseCompiled(process_config(config, tree_config, raw_tree_config, keys_dict,
                                 config_file, fs),
                  parser_type, fs, file)

---------------------------------------------------------------------------
(* dict_to_xml and dumps: the serializer, and the XML parser on its output *)

\* repr of the strs of a tuple from the i-th on: 'a', 'b'
RECURSIVE ReprCells(_, _)
ReprCells(cells, i) ==
    IF i > Len(cells) THEN <<>>
    ELSE <<"'">> \o cells[i] \o <<"'">>
             \o (IF i < Len(cells) THEN <<",", " ">> ELSE <<>>)
             \o ReprCells(cells, i + 1)

\* str(value), the text of an element
PyStr(value) ==
    CASE IsStr(value) -> value.pystr
      [] IsTuple(value) ->
            <<"(">> \o ReprCells(value.pytuple, 1)
                \o (IF Len(value.pytuple) = 1 THEN <<",">> ELSE <<>>) \o <<")">>
      [] IsNone(value) -> <<"None">>
      [] OTHER -> <<"{", "}">>

\* ET.Element(tag) with its text and its sub-elements
ETElement(tag, text, children) == [tag |-> tag, text |-> text, children |-> children]

\* The keys of a dict in one order.  A dict of the model keeps no order;
\* the tags of the sub-elements made of one dict are distinct, and the
\* flattener reads no order among distinct tags without the name key.
RECURSIVE KeySeq(_)
KeySeq(keys) ==
    IF keys = {} THEN <<>>
    ELSE LET k == CHOOSE k \in keys : TRUE IN <<k>> \o KeySeq(keys \ {k})

RECURSIVE _dict_to_xml(_)
RECURSIVE _list_to_xml(_)

\* The element of one item of data.items()
ItemElement(key, value) ==
    CASE IsDict(value) -> ETElement(key, <<>>, _dict_to_xml(value))
      [] IsList(value) -> ETElement(key, <<>>, _list_to_xml(value.pylist))
      [] OTHER -> ETElement(key, PyStr(value), <<>>)

\* The sub-elements _dict_to_xml appends to element
_dict_to_xml(data) ==
    LET keys == KeySeq(DOMAIN data)
    IN  [i \in 1..Len(keys) |-> ItemElement(keys[i], data[keys[i]])]

\* The sub-elements _list_to_xml appends to element: an item that is a
\* dict gives its items, every other item its text.  (A list inside a
\* list has no items(); the trees here hold none.)
_list_to_xml(data_list) ==
    [i \in 1..Len(data_list) |->
        IF IsDict(data_list[i])
        THEN ETElement("item", <<>>, _dict_to_xml(data_list[i]))
        ELSE ETElement("item", PyStr(data_list[i]), <<>>)]

\* The document dict_to_xml serializes, or the exception of data.items()
dict_to_xml(data, root) ==
    IF ~IsDict(data) THEN Raise("AttributeError")
    ELSE ETElement(root, <<>>, _dict_to_xml(data))

\* dumps(data, input_format='custom', root=root)
dumps(data, root) == dict_to_xml(data, root)

\* The tags of the elements in the order of their first occurrence
RECURSIVE TagsInOrder(_, _)
TagsInOrder(children, seen) ==
    IF children = <<>> THEN <<>>
    ELSE IF children[1].tag \in seen THEN TagsInOrder(Tail(children), seen)
    ELSE <<children[1].tag>> \o TagsInOrder(Tail(children), seen \cup {children[1].tag})

\* The elements of one tag, in order
RECURSIVE WithTag(_, _)
WithTag(children, tag) ==
    IF children = <<>> THEN <<>>
    ELSE (IF children[1].tag = tag THEN <<children[1]>> ELSE <<>>)
             \o WithTag(Tail(children), tag)

\* What xmltodict.parse returns of a serialized element without
\* attributes: None of an empty element, the stripped text of an element of
\* text, a dict of its sub-elements by tag, repeated tags as a list
RECURSIVE XmlValue(_)
XmlValue(element) ==
    IF element.children = <<>>
    THEN IF Strip(element.text, Whitespace) = <<>> THEN None
         ELSE Str(Strip(element.text, Whitespace))
    ELSE LET tags == TagsInOrder(element.children, {})
         IN  Items([i \in 1..Len(tags) |->
                 LET same == WithTag(element.children, tags[i])
                 IN  <<tags[i],
                       IF Len(same) = 1 THEN XmlValue(same[1])
                       ELSE List([j \in 1..Len(same) |-> XmlValue(same[j])])>>])

\* xmltodict.parse of the text dumps returns
XmlParse(document) == Items(<<<<document.tag, XmlValue(document)>>>>)

---------------------------------------------------------------------------
(* The files of parse *)

Element(name, entries) == Items(<<<<name_key, Str(<<name>>)>>>> \o entries)

\* A table element under the tag "table"
TableElement(cells, data) ==
    <<"table", Element(TableName,
                  <<<<header_key, Items(<<<<table_key, List(cells)>>>>)>>,
                    <<data_key, Str(data)>>>>)>>

HeaderAB == <<HeaderCell("a"), HeaderCell("b")>>

Data12 == <<"1", ",", "2", "\n", "1", ",", "2">>

Data1 == <<"1", "\n", "2">>

\* A container with a table that matches its header, or one that does not
ContainerElement(name, data) == Element(name, <<TableElement(HeaderAB, data)>>)

Document(entries) == Items(<<<<"root", Items(entries)>>>>)

\* What xmltodict.parse returns of the XML files: repeated tags are a list,
\* a lone tag is the element, an element of text only is the text
XmlDocuments ==
    {Document(<<<<"container", List(<<ContainerElement("c1", d1),
                                      ContainerElement("c2", d2)>>)>>>>) :
         d1, d2 \in {Data12, Data1}}
    \cup {Document(<<<<"container", ContainerElement("c1", d)>>>>) : d \in {Data12, Data1}}
    \cup {Document(<<TableElement(HeaderAB, Data12)>>),
          Document(<<<<"item", List(<<Str(<<"x">>), Str(<<"y">>)>>)>>>>),
          Document(<<<<"container", Items(<<TableElement(HeaderAB, Data12),
                                            <<name_key, Str(<<"c1">>)>>>>)>>>>),
          Document(<<<<"item", Str(<<"x">>)>>>>),
          Items(<<<<"root", None>>>>)}

XmlFileName == "data.xml"

OtherConfigFileName == "other.json"

\* The file at XmlFileName: a document, or text that is no XML
XmlFiles == {[type |-> "xml", data |-> d] : d \in XmlDocuments}
                \cup {[type |-> "text", data |-> None]}

\* The trees of the configuration files: mappings, and values that are
\* no mapping
ParseTrees ==
    {EmptyDict, Single("T", EmptyDict),
     Single("T", Merge(Single(keys_idn, Str(<<"a">>)), Single("C", EmptyDict))),
     List(<<>>), List(<<Str(<<"T">>)>>), Str(<<"T">>), None}

ParsePaths ==
    {Path(<<Wild("container"), S1("table"), S1(TableName)>>),
     Path(<<S1("table"), S1(TableName)>>),
     Path(<<S1("table"), S1(TableName), S1("a"), S1("x")>>)}

\* The configurations that load as a mapping
ParseConfigs ==
    {Merge(Single(tree_idn, tree), Merge(Single("T", List(<<p>>)), Single("C", List(<<q>>)))) :
        tree \in ParseTrees, p \in ParsePaths, q \in {Path(<<S1("table"), S1(TableName)>>)}}
    \cup {Single("T", List(<<p>>)) : p \in ParsePaths}
    \cup {EmptyDict}

\* The file at ConfigFileName: a configuration, or text that is no JSON
ConfigFiles == {[type |-> "json", data |-> conf] : conf \in ParseConfigs}
                   \cup {[type |-> "text", data |-> None]}

OtherConfig == Merge(Single(tree_idn, Single("U", EmptyDict)),
                     Single("U", List(<<Path(<<S1("table"), S1(TableName)>>)>>)))

FileNames == {XmlFileName, "missing.xml"}

---------------------------------------------------------------------------
(* The parser: an instance, its setters and parse *)

\* XmlParser(config_file, parser_type): an empty config_file loads nothing.
\* A config_file that fails to load leaves no instance: load_file prints
\* the failure, and _print reads self.verbose before the constructor has
\* set it.
Init ==
    /\ \E conf \in ConfigFiles, xml \in XmlFiles :
          files = (ConfigFileName :> conf) @@ (XmlFileName :> xml)
                      @@ (OtherConfigFileName :> [type |-> "json", data |-> OtherConfig])
    /\ _config_file \in {ConfigFileName, ""}
    /\ _config_file # "" => load_file(files, _config_file, "json").printed = <<>>
    /\ _config = IF _config_file = "" THEN EmptyDict
                 ELSE load_file(files, _config_file, "json").value
    /\ _tree_config = EmptyDict
    /\ _raw_tree_config = EmptyDict
    /\ _target_keys_dict = EmptyDict
    /\ _parser_type \in {"raw", "custom"}
    /\ verbose = TRUE
    /\ arg = None
    /\ ret = None
    /\ log = <<>>
    /\ inserted = NoOrder
    /\ pc = "init"

Parse ==
    \E file \in FileNames :
        \E r \in {parse(_config, _tree_config, _raw_tree_config, _target_keys_dict,
                        _config_file, _parser_type, files, file)} :
            /\ _config' = r.self._config
            /\ _raw_tree_config' = r.self._raw_tree_config
            /\ _tree_config' = r.self._tree_config
            /\ _target_keys_dict' = r.self._target_keys_dict
            /\ arg' = Str(<<file>>)
            /\ ret' = r.call.ret
            /\ log' = Shown(r.call.printed)
            /\ inserted' = NoOrder
            /\ pc' = "parse"
            /\ UNCHANGED <<_config_file, _parser_type, verbose, files>>

\* parser.parser_type = parser_type
SetParserType ==
    \E parser_type \in {"raw", "custom", "other"} :
        /\ IF parser_type \notin {"raw", "custom"}
           THEN ret' = Raise("ValueError") /\ UNCHANGED _parser_type
           ELSE ret' = None /\ _parser_type' = parser_type
        /\ arg' = Str(<<parser_type>>)
        /\ log' = <<>>
        /\ inserted' = NoOrder
        /\ pc' = "parser_type"
        /\ UNCHANGED <<_config, _tree_config, _raw_tree_config, _target_keys_dict,
                       _config_file, verbose, files>>

\* parser.config_file = config_file
SetConfigFile ==
    \E config_file \in {ConfigFileName, OtherConfigFileName} :
        /\ _config_file' = config_file
        /\ arg' = Str(<<config_file>>)
        /\ ret' = None
        /\ log' = <<>>
        /\ inserted' = NoOrder
        /\ pc' = "config_file"
        /\ UNCHANGED <<_config, _tree_config, _raw_tree_config, _target_keys_dict,
                       _parser_type, verbose, files>>

Next == Parse \/ SetParserType \/ SetConfigFile

Spec == Init /\ [][Next]_vars

---------------------------------------------------------------------------
(* The claims about the table extractor *)

Extracted == pc = "xml_to_dict"

\* The header cells of the table element: the cells of the list, or the
\* one cell of a header with one cell
CellsOf(node) ==
    LET header == ItemsGet(node, header_key, None)
        th == IF IsItems(header) THEN ItemsGet(header, table_key, None) ELSE None
    IN  CASE IsList(th) -> th.pylist
          [] IsItems(th) -> <<th>>
          [] OTHER -> <<>>

HasData(node) == IsStr(ItemsGet(node, data_key, None)) /\ Truthy(ItemsGet(node, data_key, None))

DataRows(node) == Split(ItemsGet(node, data_key, None).pystr, "\n")

RowCells(node, r) == Split(DataRows(node)[r], ",")

\* The number of columns of the transposed grid
DataColumns(node) == Min({Len(RowCells(node, r)) : r \in 1..Len(DataRows(node))})

\* The i-th cell of every data row, in row order
ColumnOf(node, i) == Tuple([r \in 1..Len(DataRows(node)) |-> RowCells(node, r)[i]])

CellText(cell) == AsKey(ItemsGet(cell, header_text_key, None))

\* C8: a table element with data, a header and as many data columns as
\* header cells gives a table map with exactly one column per header cell,
\* the column of the i-th cell holding the i-th cell of every row in row
\* order, the columns in header order.
C8_TableOnMatch ==
    (/\ Extracted
     /\ HasData(arg)
     /\ CellsOf(arg) # <<>>
     /\ DataColumns(arg) = Len(CellsOf(arg))) =>
        /\ DOMAIN ret = {TableName}
        /\ Cardinality(DOMAIN ret[TableName]) = Len(CellsOf(arg))
        /\ \A i \in 1..Len(CellsOf(arg)) :
              /\ CellText(CellsOf(arg)[i]) \in DOMAIN ret[TableName]
              /\ ret[TableName][CellText(CellsOf(arg)[i])] = ColumnOf(arg, i)
              /\ Len(ret[TableName][CellText(CellsOf(arg)[i])].pytuple) = Len(DataRows(arg))
        /\ TableName \in DOMAIN inserted.columns
        /\ inserted.columns[TableName] =
               [i \in 1..Len(CellsOf(arg)) |-> CellText(CellsOf(arg)[i])]

\* C9: a table element with data and a header whose numbers of data
\* columns and header cells differ does not make xml_to_dict raise, its
\* table map is empty and the diagnostic (printed when verbose) names the
\* data key when the data has fewer columns, the header key when the header
\* has fewer cells; without data or without header cells the table map is
\* empty and nothing is printed.
C9_TableOnMismatch ==
    Extracted =>
        /\ (/\ HasData(arg)
            /\ CellsOf(arg) # <<>>
            /\ DataColumns(arg) # Len(CellsOf(arg))) =>
                /\ ret = Single(TableName, EmptyDict)
                /\ verbose =>
                      log = <<[msg |-> "Header and rows do not match",
                               element |-> TableName,
                               incomplete |-> IF DataColumns(arg) < Len(CellsOf(arg))
                                              THEN data_key ELSE header_key]>>
                /\ ~verbose => log = <<>>
        /\ (~HasData(arg) \/ CellsOf(arg) = <<>>) =>
                /\ ret = Single(TableName, EmptyDict)
                /\ log = <<>>

---------------------------------------------------------------------------
(* The claims about parse *)

Parsed == pc = "parse"

\* C10: parse never raises.  In raw mode it returns what the XML file
\* parses to; in custom mode the empty mapping when the flattening fails,
\* the flattened tree when the tree of the configuration is empty or the
\* projection raises, the projection otherwise.
C10_ParseTotal ==
    Parsed =>
        LET loaded == load_file(files, arg.pystr[1], "xml").value
            flat == xml_to_dict(loaded, EmptyOrdered)
            projection == IF flat.keys = <<>> THEN Raise("StopIteration")
                          ELSE format_dict(_config, _tree_config, _target_keys_dict,
                                           flat.out[flat.keys[1]])
        IN  /\ ~IsRaised(ret)
            /\ _parser_type = "raw" => ret = loaded
            /\ _parser_type = "custom" =>
                  ret = CASE flat.exc # None -> EmptyDict
                          [] ~Truthy(_tree_config) -> flat.out
                          [] IsRaised(projection) -> flat.out
                          [] OTHER -> projection

---------------------------------------------------------------------------
(* The round trip: parse, dumps, write, parse again *)

DumpedFileName == "dumped.xml"

RootTag == "root"

\* The tree with every column as a list of its values
RECURSIVE AsLists(_)
AsLists(data) ==
    CASE IsDict(data) -> [k \in DOMAIN data |-> AsLists(data[k])]
      [] IsTuple(data) -> List([i \in 1..Len(data.pytuple) |-> Str(data.pytuple[i])])
      [] OTHER -> data

InitRoundTrip == Init /\ _parser_type = "custom"

\* parser.parse(file)
ParseFile(file) ==
    \E r \in {parse(_config, _tree_config, _raw_tree_config, _target_keys_dict,
                    _config_file, _parser_type, files, file)} :
        /\ _config' = r.self._config
        /\ _raw_tree_config' = r.self._raw_tree_config
        /\ _tree_config' = r.self._tree_config
        /\ _target_keys_dict' = r.self._target_keys_dict
        /\ arg' = Str(<<file>>)
        /\ ret' = r.call.ret
        /\ log' = Shown(r.call.printed)
        /\ inserted' = NoOrder
        /\ pc' = "parse"
        /\ UNCHANGED <<_config_file, _parser_type, verbose, files>>

\* data = parser.parse(file)
ParseData == pc = "init" /\ ParseFile(XmlFileName)

\* xmlout = parser.dumps(data, input_format='custom', root='root'), of the
\* tree parse returned, its columns tuples or lists
Dumps ==
    /\ pc = "parse"
    /\ arg = Str(<<XmlFileName>>)
    /\ ~IsRaised(ret)
    /\ \E data \in {ret, AsLists(ret)} :
          /\ arg' = data
          /\ ret' = dumps(data, RootTag)
    /\ log' = <<>>
    /\ inserted' = NoOrder
    /\ pc' = "dumps"
    /\ UNCHANGED <<_config, _tree_config, _raw_tree_config, _target_keys_dict,
                   _config_file, _parser_type, verbose, files>>

\* of.write(xmlout): the file holds the text, which the XML parser reads
WriteDumped ==
    /\ pc = "dumps"
    /\ ~IsRaised(ret)
    /\ files' = (DumpedFileName :> [type |-> "xml", data |-> XmlParse(ret)]) @@ files
    /\ arg' = ret
    /\ ret' = None
    /\ log' = <<>>
    /\ inserted' = NoOrder
    /\ pc' = "write"
    /\ UNCHANGED <<_config, _tree_config, _raw_tree_config, _target_keys_dict,
                   _config_file, _parser_type, verbose>>

\* parser.parse of the file written
ParseDumped == pc = "write" /\ ParseFile(DumpedFileName)

NextRoundTrip == ParseData \/ Dumps \/ WriteDumped \/ ParseDumped

SpecRoundTrip == InitRoundTrip /\ [][NextRoundTrip]_vars

---------------------------------------------------------------------------
(* The claim about the round trip *)

\* The ordered values of a column, a tuple or a list of strs
ColumnValues(v) ==
    IF IsTuple(v) THEN v.pytuple ELSE [i \in 1..Len(v.pylist) |-> PyStr(v.pylist[i])]

\* The same keys at every level and the same columns with the same
\* ordered values
RECURSIVE Equivalent(_, _)
Equivalent(a, b) ==
    CASE IsDict(a) /\ IsDict(b) ->
            /\ DOMAIN a = DOMAIN b
            /\ \A k \in DOMAIN a : Equivalent(a[k], b[k])
      [] (IsTuple(a) \/ IsList(a)) /\ (IsTuple(b) \/ IsList(b)) ->
            ColumnValues(a) = ColumnValues(b)
      [] OTHER -> a = b

RoundTripped == pc = "parse" /\ arg = Str(<<DumpedFileName>>)

\* C11: the tree parse returns in custom mode, serialized by dumps with
\* input_format 'custom', written, parsed back, flattened and projected, is
\* a tree with the same keys at every level and the same columns as the
\* tree that was serialized.
C11_RoundTrip ==
    RoundTripped =>
        Equivalent(ret, parse(_config, _tree_config, _raw_tree_config,
                              _target_keys_dict, _config_file, _parser_type,
                              files, XmlFileName).call.ret)

---------------------------------------------------------------------------
(* Repeated sibling elements under one tag *)

MaxSiblings == 2

SiblingTag == "table"

WrapperName == "w"

\* A table element of two columns with its name
NamedTable(name, texts, data) ==
    Items(<<<<name_key, Str(<<name>>)>>,
            <<header_key, Items(<<<<table_key,
                  List([i \in 1..Len(texts) |-> HeaderCell(texts[i])])>>>>)>>,
            <<data_key, Str(data)>>>>)

SiblingTables ==
    {NamedTable(name, texts, data) :
        name \in {"t", "u"},
        texts \in {<<"a", "b">>, <<"b", "c">>},
        data \in {<<"1", ",", "2">>, <<"2", ",", "1">>}}

\* An element with a name and one sub-element, a table
SiblingGroups ==
    {Items(<<<<name_key, Str(<<name>>)>>,
             <<tag, NamedTable("t", <<"a", "b">>, <<"1", ",", "2">>)>>>>) :
        name \in {"g", "h"}, tag \in {"x", "y"}}

SiblingElements == SiblingTables \cup SiblingGroups

\* The list xmltodict.parse returns of the elements of one tag
SiblingLists ==
    {List(siblings) : siblings \in UNION {[1..n -> SiblingElements] : n \in 2..MaxSiblings}}

\* The element holding the siblings, without a name or with one
SiblingNodes ==
    {Items(<<<<SiblingTag, l>>>>) : l \in SiblingLists}
        \cup {Items(<<<<name_key, Str(<<WrapperName>>)>>, <<SiblingTag, l>>>>) : l \in SiblingLists}

InitSiblings ==
    /\ _config = EmptyDict
    /\ _config_file = ConfigFileName
    /\ _tree_config = EmptyDict
    /\ _raw_tree_config = EmptyDict
    /\ _target_keys_dict = EmptyDict
    /\ _parser_type = "custom"
    /\ files = EmptyDict
    /\ verbose \in BOOLEAN
    /\ arg \in SiblingNodes
    /\ ret = None
    /\ log = <<>>
    /\ inserted = NoOrder
    /\ pc = "init"

SpecSiblings == InitSiblings /\ [][NextTable]_vars

---------------------------------------------------------------------------
(* The claim about sibling elements *)

SiblingsOf(node) == ItemsGet(node, SiblingTag, None).pylist

\* What xml_to_dict returns of one sibling alone
OwnResult(sibling) == xml_to_dict(sibling, EmptyOrdered).out

\* The combined result stored under the shared tag
Combined(node, out) ==
    IF ItemsHas(node, name_key) THEN out[WrapperName][SiblingTag] ELSE out[SiblingTag]

\* Another sibling of the list of the same element name holds the key too
SharedKey(node, i, name, k) ==
    \E j \in 1..Len(SiblingsOf(node)) :
        /\ j # i
        /\ name \in DOMAIN OwnResult(SiblingsOf(node)[j])
        /\ k \in DOMAIN OwnResult(SiblingsOf(node)[j])[name]

\* C12: the result xml_to_dict stores under the tag of a list of sibling
\* elements holds, for every sibling, the element name of the sibling and
\* under it every column or sub-tree of the sibling; the value of a key
\* that no other sibling of that name holds is the one of the sibling.
C12_SiblingsRetained ==
    (Extracted /\ ~IsRaised(ret)) =>
        \A i \in 1..Len(SiblingsOf(arg)) :
            \A name \in DOMAIN OwnResult(SiblingsOf(arg)[i]) :
                /\ name \in DOMAIN Combined(arg, ret)
                /\ \A k \in DOMAIN OwnResult(SiblingsOf(arg)[i])[name] :
                      /\ k \in DOMAIN Combined(arg, ret)[name]
                      /\ ~SharedKey(arg, i, name, k) =>
                            Combined(arg, ret)[name][k] =
                                OwnResult(SiblingsOf(arg)[i])[name][k]

---------------------------------------------------------------------------
(* The claim about the compiled configuration *)

\* The ConfigTree, the raw tree and the KeyFilter of the fields c
CompiledFields(c) == <<c._tree_config, c._raw_tree_config, c._target_keys_dict>>

\* The fields the first process_config of an instance leaves of config
FirstCompiled(config, config_file, fs) ==
    CompiledFields(process_config(config, EmptyDict, EmptyDict, EmptyDict, config_file, fs))

\* What load_file returns of the configuration file
ConfigLoad(config_file, fs) == load_file(fs, config_file, "json").value

\* One step of the parser instance
CompiledOnceStep ==
    /\ Truthy(_config) => _config' = _config
    /\ (pc' = "parse" /\ ~Truthy(_config)) => _config' = ConfigLoad(_config_file, files)
    /\ (pc' = "parse" /\ Truthy(_config')) =>
          <<_tree_config', _raw_tree_config', _target_keys_dict'>>
              = FirstCompiled(_config', _config_file', files')
    /\ (pc = "parse" /\ Truthy(_config)) =>
          <<_tree_config', _raw_tree_config', _target_keys_dict'>>
              = <<_tree_config, _raw_tree_config, _target_keys_dict>>

\* C13: over the parse calls and the config_file and parser_type
\* assignments of one instance, a loaded non-empty configuration is never
\* replaced, whatever config_file is assigned; after every parse with a
\* loaded configuration the ConfigTree, the raw tree and the KeyFilter are
\* those the first compilation of that configuration leaves, and every step
\* after such a parse leaves them as they are; a parse with the
\* configuration still empty loads it from the current config_file.
C13_CompiledOnce == [][CompiledOnceStep]_vars

\* A parse after config_file was assigned another file: the configuration
\* and its key filter are still those of the first file
C13_Witness ==
    /\ pc = "parse"
    /\ _config_file = OtherConfigFileName
    /\ Truthy(_config)
    /\ _config # OtherConfig
    /\ _target_keys_dict # EmptyDict
    /\ ~IsRaised(ret)

---------------------------------------------------------------------------
(* The claim about the mismatch diagnostic *)

\* The diagnostic of a mismatch is among what was printed
MismatchPrinted ==
    \E i \in 1..Len(log) : log[i].msg = "Header and rows do not match"

\* C14: of a table element with data, with as many data columns as header
\* cells and with a populated table map, xml_to_dict prints no diagnostic
\* of a mismatch between header and rows.
C14_DiagnosticOnlyOnMismatch ==
    (/\ Extracted
     /\ ~IsRaised(ret)
     /\ HasData(arg)
     /\ CellsOf(arg) # <<>>
     /\ DataColumns(arg) = Len(CellsOf(arg))
     /\ ret[TableName] # EmptyDict) =>
        ~MismatchPrinted

====
